---- MODULE Spec2Model ----
(***************************************************************************)
(* A model of package httperror (perbu/httperror): the error value         *)
(* (basicError, New, Wrap, WithHeaders, AsHTTPError, the status-family     *)
(* constructors), the handler adapters (Handler, ContextHandler) and the   *)
(* built-in formatters (plain text, JSON, HTML).                           *)
(*                                                                         *)
(* Go strings are sequences of characters (one-character TLA+ strings).    *)
(* Go pointers and maps are references into a heap: errs holds the error   *)
(* objects, maps holds the map[string]string objects; reference 0 is nil.  *)
(***************************************************************************)
EXTENDS Integers, Sequences, FiniteSets, TLC

VARIABLES
    errs,      \* heap of error objects, indexed by reference 1..Len(errs)
    maps,      \* heap of map[string]string objects, indexed by reference
    last,      \* the most recent call made by the client program and its result
    call,      \* the call a single-call run is about to make (op "none" otherwise)
    hnd,       \* the *Handler / *ContextHandler serving the request
    pc,        \* position inside ServeHTTP: "start", "handleError", "done"
    script,    \* what the user function does: its writes and its return value
    httpErr,   \* handleError's local httpErr (a reference, 0 before it is set)
    w,         \* the http.ResponseWriter of the request
    atReturn,  \* w as it was when the user function returned
    twin,      \* a second request served next to the first, to compare the two,
               \* and the order the header loop of each request took
    neg        \* the content-negotiating dispatcher: registry, default, request

vars == <<errs, maps, last, call, hnd, pc, script, httpErr, w, atReturn, twin, neg>>

valueVars == <<errs, maps, last, call>>
serveVars == <<hnd, pc, script, httpErr, w, atReturn, twin, neg>>

(***************************************************************************)
(* Bounds of the model.                                                    *)
(***************************************************************************)
MaxErrs == 4     \* error objects on the heap of the client program
MaxStores == 1   \* writes the client program makes to the maps it can reach

(***************************************************************************)
(* String literals of the source.                                          *)
(***************************************************************************)
GenericMessage == <<"A","n"," ","u","n","e","x","p","e","c","t","e","d"," ","e","r","r","o","r"," ","o","c","c","u","r","r","e","d">>
ColonSpace == <<":"," ">>
MsgNotFound == <<"N","o","t"," ","F","o","u","n","d">>
MsgMethodNotAllowed == <<"M","e","t","h","o","d"," ","N","o","t"," ","A","l","l","o","w","e","d">>
MsgInternalServerError == <<"I","n","t","e","r","n","a","l"," ","S","e","r","v","e","r"," ","E","r","r","o","r">>
MsgNotImplemented == <<"N","o","t"," ","I","m","p","l","e","m","e","n","t","e","d">>
MsgBadGateway == <<"B","a","d"," ","G","a","t","e","w","a","y">>
MsgServiceUnavailable == <<"S","e","r","v","i","c","e"," ","U","n","a","v","a","i","l","a","b","l","e">>
MsgGatewayTimeout == <<"G","a","t","e","w","a","y"," ","T","i","m","e","o","u","t">>
ContentType == <<"C","o","n","t","e","n","t","-","T","y","p","e">>
TextPlain == <<"t","e","x","t","/","p","l","a","i","n">>
ApplicationJSON == <<"a","p","p","l","i","c","a","t","i","o","n","/","j","s","o","n">>
TextHTML == <<"t","e","x","t","/","h","t","m","l",";"," ","c","h","a","r","s","e","t","=","u","t","f","-","8">>

(***************************************************************************)
(* Status codes the source names (net/http constants).                     *)
(***************************************************************************)
StatusBadRequest == 400
StatusUnauthorized == 401
StatusForbidden == 403
StatusNotFound == 404
StatusMethodNotAllowed == 405
StatusConflict == 409
StatusUnprocessableEntity == 422
StatusInternalServerError == 500
StatusNotImplemented == 501
StatusBadGateway == 502
StatusServiceUnavailable == 503
StatusGatewayTimeout == 504

\* http.StatusText: the reason phrase of a status code, "" for a code that has none
\* (the rows for the codes the model uses)
StatusText(code) ==
    CASE code = 200 -> <<"O","K">>
      [] code = 400 -> <<"B","a","d"," ","R","e","q","u","e","s","t">>
      [] code = 401 -> <<"U","n","a","u","t","h","o","r","i","z","e","d">>
      [] code = 403 -> <<"F","o","r","b","i","d","d","e","n">>
      [] code = 404 -> <<"N","o","t"," ","F","o","u","n","d">>
      [] code = 405 -> <<"M","e","t","h","o","d"," ","N","o","t"," ","A","l","l","o","w","e","d">>
      [] code = 408 -> <<"R","e","q","u","e","s","t"," ","T","i","m","e","o","u","t">>
      [] code = 409 -> <<"C","o","n","f","l","i","c","t">>
      [] code = 422 -> <<"U","n","p","r","o","c","e","s","s","a","b","l","e"," ","E","n","t","i","t","y">>
      [] code = 500 -> <<"I","n","t","e","r","n","a","l"," ","S","e","r","v","e","r"," ","E","r","r","o","r">>
      [] code = 501 -> <<"N","o","t"," ","I","m","p","l","e","m","e","n","t","e","d">>
      [] code = 502 -> <<"B","a","d"," ","G","a","t","e","w","a","y">>
      [] code = 503 -> <<"S","e","r","v","i","c","e"," ","U","n","a","v","a","i","l","a","b","l","e">>
      [] code = 504 -> <<"G","a","t","e","w","a","y"," ","T","i","m","e","o","u","t">>
      [] OTHER -> <<>>

(***************************************************************************)
(* The heap.  A heap value H is a record [errs, maps].                     *)
(*   error object: [kind, code, message, headers, cause]                   *)
(*     kind "basic"  : *basicError                                         *)
(*     kind "custom" : another type implementing HTTPError (its accessors  *)
(*                     return code, message and the map headers)           *)
(*     kind "plain"  : an error that does not implement HTTPError          *)
(*                     (errors.New(message))                               *)
(*   map object: [by, kv]; by is "client" for a map the client program     *)
(*     made and holds directly, "pkg" for one the package allocated,       *)
(*     "custom" for the one a custom HTTPError value holds;                *)
(*     kv is a function from the keys present to their values.             *)
(***************************************************************************)
NilRef == 0

EmptyKV == [k \in {} |-> <<>>]

\* dst after `for k, v := range src { dst[k] = v }`
CopyInto(dst, src) ==
    [k \in DOMAIN dst \cup DOMAIN src |-> IF k \in DOMAIN src THEN src[k] ELSE dst[k]]

\* m after m[k] = v
Put(m, k, v) == [x \in DOMAIN m \cup {k} |-> IF x = k THEN v ELSE m[x]]

Heap(e, m) == [errs |-> e, maps |-> m]

\* the entries a range over map reference m visits (none for a nil map)
Entries(H, m) == IF m = NilRef THEN EmptyKV ELSE H.maps[m].kv

\* make(map[string]string), then filled with kv
AllocMap(H, by, kv) ==
    [heap |-> Heap(H.errs, Append(H.maps, [by |-> by, kv |-> kv])),
     ref  |-> Len(H.maps) + 1]

AllocErr(H, obj) ==
    [heap |-> Heap(Append(H.errs, obj), H.maps),
     ref  |-> Len(H.errs) + 1]

IsHTTPError(H, e) == e # NilRef /\ H.errs[e].kind \in {"basic", "custom"}

\* &basicError{code, message, headers: make(map[string]string), cause}
NewBasic(H, code, message, cause) ==
    LET m == AllocMap(H, "pkg", EmptyKV)
    IN  AllocErr(m.heap, [kind |-> "basic", code |-> code, message |-> message,
                          headers |-> m.ref, cause |-> cause])

New(H, code, message) == NewBasic(H, code, message, NilRef)

\* a Wrap that folds the cause's message into the public message
WrapFoldingCause(H, code, message, err) ==
    NewBasic(H, code,
             IF err = NilRef THEN message
             ELSE message \o ColonSpace \o H.errs[err].message,
             err)

Wrap(H, code, message, err) == NewBasic(H, code, message, err)

StatusCode(H, e) == H.errs[e].code

Message(H, e) == H.errs[e].message

\* Headers(): basicError returns its own map, or a fresh empty one when the
\* field is nil; the result is [heap, ref].
Headers(H, e) ==
    IF H.errs[e].kind = "basic" /\ H.errs[e].headers = NilRef
    THEN AllocMap(H, "pkg", EmptyKV)
    ELSE [heap |-> H, ref |-> H.errs[e].headers]

\* an Error() that leaves the cause out
ErrorWithoutCause(H, e) == H.errs[e].message

RECURSIVE Error(_, _)
Error(H, e) ==
    IF H.errs[e].kind = "basic" /\ H.errs[e].cause # NilRef
    THEN H.errs[e].message \o ColonSpace \o Error(H, H.errs[e].cause)
    ELSE H.errs[e].message

\* a WithHeaders that writes the new entries into the receiver's own map
\* and hands that same map to the result
WithHeadersBasicShared(H, err, headers) ==
    LET be == H.errs[err]
        kv == CopyInto(Entries(H, be.headers), Entries(H, headers))
        hp == Heap(H.errs, [H.maps EXCEPT ![be.headers].kv = kv])
    IN  AllocErr(hp, [kind |-> "basic", code |-> be.code, message |-> be.message,
                      headers |-> be.headers, cause |-> be.cause])

\* the *basicError branch of WithHeaders
WithHeadersBasic(H, err, headers) ==
    LET be == H.errs[err]
        kv == CopyInto(CopyInto(EmptyKV, Entries(H, be.headers)), Entries(H, headers))
        m  == AllocMap(H, "pkg", kv)
    IN  AllocErr(m.heap, [kind |-> "basic", code |-> be.code, message |-> be.message,
                          headers |-> m.ref, cause |-> be.cause])

\* AsHTTPError passing the error's own text on instead of the fixed message
AsHTTPErrorLeaking(H, err) ==
    IF IsHTTPError(H, err)
    THEN [heap |-> H, ref |-> err]
    ELSE New(H, StatusInternalServerError,
             IF err = NilRef THEN GenericMessage ELSE Error(H, err))

\* the branch of WithHeaders for other implementations of HTTPError
WithHeadersOther(H, err, headers) ==
    LET hs == Headers(H, err)
        kv == CopyInto(CopyInto(EmptyKV, Entries(H, headers)), Entries(hs.heap, hs.ref))
        m  == AllocMap(hs.heap, "pkg", kv)
    IN  AllocErr(m.heap, [kind |-> "basic", code |-> StatusCode(H, err),
                          message |-> Message(H, err),
                          headers |-> m.ref, cause |-> NilRef])

WithHeaders(H, err, headers) ==
    IF H.errs[err].kind = "basic"
    THEN WithHeadersBasic(H, err, headers)
    ELSE WithHeadersOther(H, err, headers)

InternalServerError(H, message) ==
    New(H, StatusInternalServerError,
        IF message = <<>> THEN MsgInternalServerError ELSE message)

AsHTTPError(H, err) ==
    IF IsHTTPError(H, err)
    THEN [heap |-> H, ref |-> err]
    ELSE InternalServerError(H, GenericMessage)

(***************************************************************************)
(* Status-family constructors (errors.go).                                 *)
(***************************************************************************)
OrDefault(message, default) == IF message = <<>> THEN default ELSE message

BadRequest(H, message) == New(H, StatusBadRequest, message)
Unauthorized(H, message) == New(H, StatusUnauthorized, message)
Forbidden(H, message) == New(H, StatusForbidden, message)
NotFound(H, message) == New(H, StatusNotFound, OrDefault(message, MsgNotFound))
MethodNotAllowed(H, message) ==
    New(H, StatusMethodNotAllowed, OrDefault(message, MsgMethodNotAllowed))
Conflict(H, message) == New(H, StatusConflict, message)
UnprocessableEntity(H, message) == New(H, StatusUnprocessableEntity, message)
NotImplemented(H, message) ==
    New(H, StatusNotImplemented, OrDefault(message, MsgNotImplemented))
BadGateway(H, message) == New(H, StatusBadGateway, OrDefault(message, MsgBadGateway))
ServiceUnavailable(H, message) ==
    New(H, StatusServiceUnavailable, OrDefault(message, MsgServiceUnavailable))
\* a GatewayTimeout carrying the neighbouring constructor's code and default
GatewayTimeoutAsBadGateway(H, message) ==
    New(H, StatusBadGateway, OrDefault(message, MsgBadGateway))

GatewayTimeout(H, message) ==
    New(H, StatusGatewayTimeout, OrDefault(message, MsgGatewayTimeout))

ConstructorNames ==
    {"BadRequest", "Unauthorized", "Forbidden", "NotFound", "MethodNotAllowed",
     "Conflict", "UnprocessableEntity", "InternalServerError", "NotImplemented",
     "BadGateway", "ServiceUnavailable", "GatewayTimeout"}

\* the call name(message)
Construct(H, name, message) ==
    CASE name = "BadRequest"          -> BadRequest(H, message)
      [] name = "Unauthorized"        -> Unauthorized(H, message)
      [] name = "Forbidden"           -> Forbidden(H, message)
      [] name = "NotFound"            -> NotFound(H, message)
      [] name = "MethodNotAllowed"    -> MethodNotAllowed(H, message)
      [] name = "Conflict"            -> Conflict(H, message)
      [] name = "UnprocessableEntity" -> UnprocessableEntity(H, message)
      [] name = "InternalServerError" -> InternalServerError(H, message)
      [] name = "NotImplemented"      -> NotImplemented(H, message)
      [] name = "BadGateway"          -> BadGateway(H, message)
      [] name = "ServiceUnavailable"  -> ServiceUnavailable(H, message)
      [] name = "GatewayTimeout"      -> GatewayTimeout(H, message)

(***************************************************************************)
(* Decimal formatting (%d of fmt, numbers of encoding/json).               *)
(***************************************************************************)
Digits == <<"0","1","2","3","4","5","6","7","8","9">>

RECURSIVE Itoa(_)
Itoa(n) == IF n < 10 THEN <<Digits[n + 1]>> ELSE Itoa(n \div 10) \o <<Digits[(n % 10) + 1]>>

(***************************************************************************)
(* The http.ResponseWriter the handlers write to.                          *)
(*   header      : the map Header() returns, keyed by canonical name       *)
(*   wroteHeader : the response is committed                               *)
(*   status, sent: the status line and the headers that went out with it   *)
(*   body        : the bytes written                                       *)
(*   log         : every call made on the writer, in order, with who made  *)
(*                 it ("user": the user function, "adapter": ServeHTTP,    *)
(*                 handleError and the formatter they invoke)              *)
(***************************************************************************)
LowerLetters ==
    <<"a","b","c","d","e","f","g","h","i","j","k","l","m",
      "n","o","p","q","r","s","t","u","v","w","x","y","z">>
UpperLetters ==
    <<"A","B","C","D","E","F","G","H","I","J","K","L","M",
      "N","O","P","Q","R","S","T","U","V","W","X","Y","Z">>

ToUpper(c) ==
    IF \E i \in 1..26 : LowerLetters[i] = c
    THEN UpperLetters[CHOOSE i \in 1..26 : LowerLetters[i] = c]
    ELSE c

ToLower(c) ==
    IF \E i \in 1..26 : UpperLetters[i] = c
    THEN LowerLetters[CHOOSE i \in 1..26 : UpperLetters[i] = c]
    ELSE c

\* the canonical form http.Header.Set stores a key under (keys of letters,
\* digits and "-"): upper case at the start and after "-", lower case elsewhere
CanonicalKey(k) ==
    [i \in 1..Len(k) |-> IF i = 1 \/ k[i - 1] = "-" THEN ToUpper(k[i]) ELSE ToLower(k[i])]

NewResponse ==
    [header |-> EmptyKV, wroteHeader |-> FALSE, status |-> 0, sent |-> EmptyKV,
     body |-> <<>>, log |-> <<>>]

Event(by, op, key, val, code) ==
    [by |-> by, op |-> op, key |-> key, val |-> val, code |-> code]

\* w.Header().Set(key, value)
HeaderSet(rw, by, key, value) ==
    [rw EXCEPT !.header = Put(@, CanonicalKey(key), value),
               !.log = Append(@, Event(by, "Set", key, value, 0))]

\* the first status or body write commits the response with the headers set so far
Committed(rw, code) ==
    IF rw.wroteHeader
    THEN rw
    ELSE [rw EXCEPT !.wroteHeader = TRUE, !.status = code, !.sent = rw.header]

\* w.WriteHeader(code)
WriteHeader(rw, by, code) ==
    [Committed(rw, code) EXCEPT !.log = Append(@, Event(by, "WriteHeader", <<>>, <<>>, code))]

\* w.Write(data)
Write(rw, by, data) ==
    [Committed(rw, 200) EXCEPT !.body = @ \o data,
                               !.log = Append(@, Event(by, "Write", <<>>, data, 0))]

(***************************************************************************)
(* Formatters.                                                             *)
(***************************************************************************)
\* a plain-text formatter that leaves the status line to the first Write
PlainTextFormatNoStatus(rw, H, err) ==
    Write(HeaderSet(rw, "adapter", ContentType, TextPlain), "adapter", Message(H, err))

\* PlainTextFormatter.Format
PlainTextFormat(rw, H, err) ==
    Write(WriteHeader(HeaderSet(rw, "adapter", ContentType, TextPlain),
                      "adapter", StatusCode(H, err)),
          "adapter", Message(H, err))

\* the byte of a message that is no valid UTF-8, and the character
\* encoding/json puts in its place (U+FFFD)
InvalidByte == "0xFF"
ReplacementChar == "U+FFFD"

\* encoding/json: one character of a string, as written between the quotes
EscapeChar(c) ==
    CASE c = "\""        -> <<"\\", "\"">>
      [] c = "\\"        -> <<"\\", "\\">>
      [] c = "\n"        -> <<"\\", "n">>
      [] c = "<"         -> <<"\\", "u", "0", "0", "3", "c">>
      [] c = InvalidByte -> <<"\\", "u", "f", "f", "f", "d">>
      [] OTHER           -> <<c>>

RECURSIVE EscapeString(_)
EscapeString(str) ==
    IF str = <<>> THEN <<>> ELSE EscapeChar(Head(str)) \o EscapeString(Tail(str))

Quote(str) == <<"\"">> \o EscapeString(str) \o <<"\"">>

\* the fields encoding/json writes for the response struct: "code" has the
\* tag omitempty and is left out when empty
JSONFields(resp) ==
    <<  <<"e","r","r","o","r">>  :> Quote(resp.Error),
        <<"s","t","a","t","u","s">> :> Itoa(resp.Status) >>
    \o (IF resp.Code = <<>> THEN <<>> ELSE << <<"c","o","d","e">> :> Quote(resp.Code) >>)

\* the fields joined: open, then name, colon, value per field with sep between, then close
RECURSIVE JoinFields(_, _, _)
JoinFields(fields, colon, sep) ==
    IF fields = <<>> THEN <<>>
    ELSE LET f == Head(fields)
             k == CHOOSE x \in DOMAIN f : TRUE
         IN  Quote(k) \o colon \o f[k]
             \o (IF Len(fields) > 1 THEN sep ELSE <<>>)
             \o JoinFields(Tail(fields), colon, sep)

\* json.Marshal(response)
Marshal(resp) ==
    <<"{">> \o JoinFields(JSONFields(resp), <<":">>, <<",">>) \o <<"}">>

\* json.MarshalIndent(response, "", "  ")
MarshalIndent(resp) ==
    <<"{", "\n", " ", " ">>
    \o JoinFields(JSONFields(resp), <<":", " ">>, <<",", "\n", " ", " ">>)
    \o <<"\n", "}">>

JSONResponse(H, err) ==
    [Error  |-> Message(H, err),
     Status |-> StatusCode(H, err),
     Code   |-> StatusText(StatusCode(H, err))]

\* a JSON formatter whose "code" field has no omitempty
JSONFormatAlwaysCode(rw, H, err, prettyPrint) ==
    LET resp == JSONResponse(H, err)
        flds == <<  <<"e","r","r","o","r">>  :> Quote(resp.Error),
                    <<"s","t","a","t","u","s">> :> Itoa(resp.Status),
                    <<"c","o","d","e">> :> Quote(resp.Code) >>
        data == <<"{">> \o JoinFields(flds, <<":">>, <<",">>) \o <<"}">>
    IN  Write(WriteHeader(HeaderSet(rw, "adapter", ContentType, ApplicationJSON),
                          "adapter", StatusCode(H, err)),
              "adapter", data)

\* the formatter NewJSONFormatter(prettyPrint) returns
JSONFormat(rw, H, err, prettyPrint) ==
    LET resp == JSONResponse(H, err)
        data == IF prettyPrint THEN MarshalIndent(resp) ELSE Marshal(resp)
    IN  Write(WriteHeader(HeaderSet(rw, "adapter", ContentType, ApplicationJSON),
                          "adapter", StatusCode(H, err)),
              "adapter", data)

HTMLPart1 ==
    <<"<","!","D","O","C","T","Y","P","E"," ","h","t","m","l",">","\n","<","h","t","m","l",">",
      "\n","<","h","e","a","d",">","\n"," "," "," "," ","<","t","i","t","l","e",">","E","r","r",
      "o","r"," ">>

HTMLPart2 ==
    <<"<","/","t","i","t","l","e",">","\n"," "," "," "," ","<","s","t","y","l","e",">","\n"," ",
      " "," "," "," "," "," "," ","b","o","d","y"," ","{"," ","f","o","n","t","-","f","a","m",
      "i","l","y",":"," ","A","r","i","a","l",","," ","s","a","n","s","-","s","e","r","i","f",
      ";"," ","m","a","r","g","i","n",":"," ","4","0","p","x",";"," ","}","\n"," "," "," "," ",
      " "," "," "," ",".","e","r","r","o","r","-","c","o","n","t","a","i","n","e","r"," ","{",
      " ","m","a","x","-","w","i","d","t","h",":"," ","6","0","0","p","x",";"," ","m","a","r",
      "g","i","n",":"," ","0"," ","a","u","t","o",";"," ","}","\n"," "," "," "," "," "," "," ",
      " ",".","e","r","r","o","r","-","c","o","d","e"," ","{"," ","f","o","n","t","-","s","i",
      "z","e",":"," ","4","8","p","x",";"," ","c","o","l","o","r",":"," ","#","e","7","4","c",
      "3","c",";"," ","m","a","r","g","i","n","-","b","o","t","t","o","m",":"," ","2","0","p",
      "x",";"," ","}","\n"," "," "," "," "," "," "," "," ",".","e","r","r","o","r","-","m","e",
      "s","s","a","g","e"," ","{"," ","f","o","n","t","-","s","i","z","e",":"," ","1","8","p",
      "x",";"," ","c","o","l","o","r",":"," ","#","3","3","3",";"," ","m","a","r","g","i","n",
      "-","b","o","t","t","o","m",":"," ","2","0","p","x",";"," ","}","\n"," "," "," "," "," ",
      " "," "," ",".","e","r","r","o","r","-","d","e","t","a","i","l","s"," ","{"," ","f","o",
      "n","t","-","s","i","z","e",":"," ","1","4","p","x",";"," ","c","o","l","o","r",":"," ",
      "#","6","6","6",";"," ","}","\n"," "," "," "," ","<","/","s","t","y","l","e",">","\n","<",
      "/","h","e","a","d",">","\n","<","b","o","d","y",">","\n"," "," "," "," ","<","d","i","v",
      " ","c","l","a","s","s","=","\"","e","r","r","o","r","-","c","o","n","t","a","i","n","e",
      "r","\"",">","\n"," "," "," "," "," "," "," "," ","<","d","i","v"," ","c","l","a","s","s",
      "=","\"","e","r","r","o","r","-","c","o","d","e","\"",">">>

HTMLPart3 ==
    <<"<","/","d","i","v",">","\n"," "," "," "," "," "," "," "," ","<","d","i","v"," ","c","l",
      "a","s","s","=","\"","e","r","r","o","r","-","m","e","s","s","a","g","e","\"",">">>

HTMLPart4 ==
    <<"<","/","d","i","v",">","\n"," "," "," "," "," "," "," "," ","<","d","i","v"," ","c","l",
      "a","s","s","=","\"","e","r","r","o","r","-","d","e","t","a","i","l","s","\"",">">>

HTMLPart5 ==
    <<"<","/","d","i","v",">","\n"," "," "," "," ","<","/","d","i","v",">","\n","<","/","b","o",
      "d","y",">","\n","<","/","h","t","m","l",">">>

\* an HTML formatter that sets its Content-Type after the status line
HTMLFormatLateType(rw, H, err) ==
    LET page == HTMLPart1 \o Itoa(StatusCode(H, err))
                \o HTMLPart2 \o Itoa(StatusCode(H, err))
                \o HTMLPart3 \o Message(H, err)
                \o HTMLPart4 \o StatusText(StatusCode(H, err))
                \o HTMLPart5
    IN  Write(HeaderSet(WriteHeader(rw, "adapter", StatusCode(H, err)),
                        "adapter", ContentType, TextHTML),
              "adapter", page)

\* the formatter NewHTMLFormatter() returns; Fprintf makes one Write
HTMLFormat(rw, H, err) ==
    LET page == HTMLPart1 \o Itoa(StatusCode(H, err))
                \o HTMLPart2 \o Itoa(StatusCode(H, err))
                \o HTMLPart3 \o Message(H, err)
                \o HTMLPart4 \o StatusText(StatusCode(H, err))
                \o HTMLPart5
    IN  Write(WriteHeader(HeaderSet(rw, "adapter", ContentType, TextHTML),
                          "adapter", StatusCode(H, err)),
              "adapter", page)

FormatterNames == {"plainText", "json", "jsonPretty", "html"}

\* h.formatter.Format(w, r, httpErr)
Format(formatter, rw, H, err) ==
    CASE formatter = "plainText"  -> PlainTextFormat(rw, H, err)
      [] formatter = "json"       -> JSONFormat(rw, H, err, FALSE)
      [] formatter = "jsonPretty" -> JSONFormat(rw, H, err, TRUE)
      [] formatter = "html"       -> HTMLFormat(rw, H, err)

(***************************************************************************)
(* Values shared by the specifications.                                    *)
(***************************************************************************)
H0 == Heap(errs, maps)

ErrRefs == 1..Len(errs)
MapRefs == 1..Len(maps)

EmptyHeap == Heap(<<>>, <<>>)

\* errors.New(message): an error that is no HTTPError
ErrorsNew(H, message) ==
    AllocErr(H, [kind |-> "plain", code |-> 0, message |-> message,
                 headers |-> NilRef, cause |-> NilRef])

\* a value of another type that implements HTTPError, holding its own map
Custom(H, code, message, kv) ==
    LET m == AllocMap(H, "custom", kv)
    IN  AllocErr(m.heap, [kind |-> "custom", code |-> code, message |-> message,
                          headers |-> m.ref, cause |-> NilRef])

NoCall == [op |-> "none", name |-> "", code |-> 0, message |-> <<>>, cause |-> NilRef]
NoLast == [op |-> "none", arg |-> NilRef, hdr |-> NilRef, res |-> NilRef,
           text |-> <<>>, stores |-> 0]

Done(op, arg, hdr, res, text) ==
    [op |-> op, arg |-> arg, hdr |-> hdr, res |-> res, text |-> text,
     stores |-> last.stores + (IF op = "store" THEN 1 ELSE 0)]

Commit(r) == errs' = r.heap.errs /\ maps' = r.heap.maps

NoHandler == [variant |-> "none", formatter |-> "nil"]
NoScript == [writes |-> <<>>, ret |-> NilRef]
\* no second request
NoTwin == [hnd |-> NoHandler, pc |-> "idle", ret |-> NilRef, httpErr |-> NilRef,
           w |-> NewResponse, atReturn |-> NewResponse, made |-> "none",
           order1 |-> <<>>, order2 |-> <<>>]
\* no dispatcher
NoNegotiator == [phase |-> "none", registry |-> <<>>, default |-> "nil",
                 accept |-> [present |-> FALSE, value |-> <<>>], chosen |-> "nil"]

ServeIdle ==
    /\ hnd = NoHandler
    /\ pc = "idle"
    /\ script = NoScript
    /\ httpErr = NilRef
    /\ w = NewResponse
    /\ atReturn = NewResponse
    /\ twin = NoTwin
    /\ neg = NoNegotiator

(***************************************************************************)
(* Spec: a client program that holds an error value e and two header maps  *)
(* h1, h2, and from there calls WithHeaders, AsHTTPError and Error() and   *)
(* writes to the maps it can reach: its own, and those Headers() returns.  *)
(***************************************************************************)
CodeV == StatusBadRequest
MsgsV == {<<>>, <<"x">>}
KeyK  == <<"K">>
KeyL  == <<"L">>
LitH1 == [k \in {KeyK} |-> <<"1">>]
LitH2 == [k \in {KeyK, KeyL} |-> IF k = KeyK THEN <<"2">> ELSE <<"1">>]
\* the entry a write to a map stores
StoredKey == KeyK
StoredVal == <<"9">>

\* heap after  p := errors.New("boom"); e := <one constructor>;
\*             h1 := map[string]string{"K": "1"}; h2 := map[string]string{"K": "2", "L": "1"}
StartHeaps ==
    LET p  == ErrorsNew(EmptyHeap, <<"b","o","o","m">>)
        es == {New(p.heap, CodeV, m) : m \in MsgsV}
              \cup {Wrap(p.heap, CodeV, m, p.ref) : m \in MsgsV}
              \cup {NotFound(p.heap, <<>>)}
              \cup {Custom(p.heap, CodeV, <<"x">>, kv) : kv \in {EmptyKV, LitH1}}
    IN  {AllocMap(AllocMap(e.heap, "client", LitH1).heap, "client", LitH2).heap : e \in es}

Init ==
    /\ \E H \in StartHeaps : errs = H.errs /\ maps = H.maps
    /\ last = NoLast
    /\ call = NoCall
    /\ ServeIdle

CallWithHeaders ==
    \E err \in ErrRefs, headers \in MapRefs \cup {NilRef} :
        /\ IsHTTPError(H0, err)
        /\ Len(errs) < MaxErrs
        /\ LET r == WithHeaders(H0, err, headers)
           IN  Commit(r) /\ last' = Done("WithHeaders", err, headers, r.ref, <<>>)
        /\ UNCHANGED <<call, serveVars>>

CallAsHTTPError ==
    \E err \in ErrRefs \cup {NilRef} :
        /\ IsHTTPError(H0, err) \/ Len(errs) < MaxErrs
        /\ LET r == AsHTTPError(H0, err)
           IN  Commit(r) /\ last' = Done("AsHTTPError", err, NilRef, r.ref, <<>>)
        /\ UNCHANGED <<call, serveVars>>

CallError ==
    \E err \in ErrRefs :
        /\ last' = Done("Error", err, NilRef, NilRef, Error(H0, err))
        /\ UNCHANGED <<errs, maps, call, serveVars>>

\* err.Headers()["K"] = "9"
StoreViaError ==
    \E err \in ErrRefs :
        /\ IsHTTPError(H0, err)
        /\ last.stores < MaxStores
        /\ LET hs == Headers(H0, err)
           IN  /\ errs' = hs.heap.errs
               /\ maps' = [hs.heap.maps EXCEPT ![hs.ref].kv = Put(@, StoredKey, StoredVal)]
               /\ last' = Done("store", err, NilRef, NilRef, <<>>)
        /\ UNCHANGED <<call, serveVars>>

\* m["K"] = "9" on a map the client program made
StoreViaMap ==
    \E m \in MapRefs :
        /\ maps[m].by = "client"
        /\ last.stores < MaxStores
        /\ maps' = [maps EXCEPT ![m].kv = Put(@, StoredKey, StoredVal)]
        /\ last' = Done("store", NilRef, m, NilRef, <<>>)
        /\ UNCHANGED <<errs, call, serveVars>>

Next ==
    \/ CallWithHeaders
    \/ CallAsHTTPError
    \/ CallError
    \/ StoreViaError
    \/ StoreViaMap

Spec == Init /\ [][Next]_vars

(***************************************************************************)
(* Properties of the error value.                                          *)
(***************************************************************************)
\* the headers seen through error x: the entries of the map x.Headers() returns
View(H, x) == Entries(H, H.errs[x].headers)

\* top applied over base: every entry of top, and the entries of base under other keys
IsOverride(res, base, top) ==
    /\ DOMAIN res = DOMAIN base \cup DOMAIN top
    /\ \A k \in DOMAIN top : res[k] = top[k]
    /\ \A k \in DOMAIN base \ DOMAIN top : res[k] = base[k]

H1 == Heap(errs', maps')

WithHeadersStep == last'.op = "WithHeaders" /\ Len(errs') = Len(errs) + 1

\* C1: WithHeaders on a value built by New, Wrap or a status-family constructor (or
\* by WithHeaders from one) leaves every existing error object and every existing
\* map as it was, returns a value whose headers are the receiver's overridden by
\* the supplied map and are held in storage of their own; and a later write to
\* the header storage of one error value, or to one of the client's maps, is
\* seen through no other error value and no other client map.
C1_WithHeadersNonDestructive ==
    [][ /\ (WithHeadersStep /\ errs[last'.arg].kind = "basic") =>
              /\ \A x \in ErrRefs : errs'[x] = errs[x]
              /\ \A m \in MapRefs : maps'[m] = maps[m]
              /\ errs'[last'.res].headers \notin MapRefs \cup {NilRef}
              /\ IsOverride(View(H1, last'.res), View(H0, last'.arg),
                            Entries(H0, last'.hdr))
        /\ (last'.op = "store" /\ last'.stores = last.stores + 1) =>
              /\ \A y \in ErrRefs :
                    (errs[y].kind = "basic" /\ y # last'.arg) => View(H1, y) = View(H0, y)
              /\ \A m \in MapRefs :
                    (maps[m].by = "client" /\ m # last'.hdr) => maps'[m] = maps[m]
      ]_vars

\* e built by New, r1 = WithHeaders(e, h1), r2 = WithHeaders(e, h2), then a write
\* through r1.Headers(): r1 shows it, e, r2, h1 and h2 do not
C1_Witness ==
    /\ Len(errs) = 4
    /\ last.op = "store" /\ last.arg = 3
    /\ errs[2].kind = "basic" /\ errs[3].kind = "basic" /\ errs[4].kind = "basic"
    /\ View(H0, 2) = EmptyKV
    /\ View(H0, 3) = [k \in {KeyK} |-> StoredVal]
    /\ View(H0, 4) = LitH2
    /\ \E m \in MapRefs : maps[m] = [by |-> "client", kv |-> LitH1]

\* C2: AsHTTPError returns a value that implements HTTPError as it is (the same
\* reference, nothing on the heap changed), and for every other error, nil
\* included, a new value with status 500 and the fixed message.
C2_AsHTTPErrorTwoOutcomes ==
    [][ (last'.op = "AsHTTPError") =>
           IF IsHTTPError(H0, last'.arg)
           THEN /\ last'.res = last'.arg
                /\ errs' = errs /\ maps' = maps
           ELSE /\ last'.res \notin ErrRefs
                /\ \A x \in ErrRefs : errs'[x] = errs[x]
                /\ IsHTTPError(H1, last'.res)
                /\ StatusCode(H1, last'.res) = 500
                /\ Message(H1, last'.res) = GenericMessage
      ]_vars

\* AsHTTPError has been called on an error that is no HTTPError and whose own
\* text differs from the fixed message, and on one that is an HTTPError
C2_Witness ==
    /\ last.op = "AsHTTPError"
    /\ last.arg # NilRef /\ errs[last.arg].kind = "plain"
    /\ errs[last.arg].message # GenericMessage
    /\ last.res = Len(errs)

C2_WitnessIdentity ==
    /\ last.op = "AsHTTPError"
    /\ last.arg # NilRef /\ errs[last.arg].kind = "custom"
    /\ last.res = last.arg

\* C7: WithHeaders on an HTTPError of another type returns a value with the
\* input's status and message whose headers are the input's Headers() with the
\* supplied map applied on top, the supplied map winning on a common key.
C7_OtherImplementationMerge ==
    [][ (WithHeadersStep /\ errs[last'.arg].kind = "custom") =>
           /\ StatusCode(H1, last'.res) = StatusCode(H0, last'.arg)
           /\ Message(H1, last'.res) = Message(H0, last'.arg)
           /\ IsOverride(View(H1, last'.res), View(H0, last'.arg),
                         Entries(H0, last'.hdr))
      ]_vars

(***************************************************************************)
(* SpecCall: one call of a constructor.  The heap holds two errors a       *)
(* caller may wrap: p := errors.New("boom") and                            *)
(* q := Wrap(503, "db", p); the call and its arguments are drawn in the    *)
(* initial state.                                                          *)
(***************************************************************************)
CodesC == {0, 200, 299, StatusNotFound, StatusInternalServerError}
MsgsC  == {<<>>, <<"x">>, <<"t","e","s","t">>, <<"%","v">>}
TextBoom == <<"b","o","o","m">>
TextDB == <<"d","b">>

CallHeap ==
    LET p == ErrorsNew(EmptyHeap, TextBoom)
    IN  Wrap(p.heap, StatusServiceUnavailable, TextDB, p.ref).heap

CallInputs ==
    [op : {"New"}, name : {""}, code : CodesC, message : MsgsC, cause : {NilRef}]
    \cup [op : {"Wrap"}, name : {""}, code : CodesC, message : MsgsC,
          cause : {NilRef, 1, 2}]
    \cup [op : {"Construct"}, name : ConstructorNames, code : {0}, message : MsgsC,
          cause : {NilRef}]

InitCall ==
    /\ errs = CallHeap.errs
    /\ maps = CallHeap.maps
    /\ last = NoLast
    /\ call \in CallInputs
    /\ ServeIdle

CallNew ==
    /\ call.op = "New" /\ last.op = "none"
    /\ LET r == New(H0, call.code, call.message)
       IN  Commit(r) /\ last' = Done("New", NilRef, NilRef, r.ref, Error(r.heap, r.ref))
    /\ UNCHANGED <<call, serveVars>>

CallWrap ==
    /\ call.op = "Wrap" /\ last.op = "none"
    /\ LET r == Wrap(H0, call.code, call.message, call.cause)
       IN  Commit(r) /\ last' = Done("Wrap", call.cause, NilRef, r.ref, Error(r.heap, r.ref))
    /\ UNCHANGED <<call, serveVars>>

CallConstruct ==
    /\ call.op = "Construct" /\ last.op = "none"
    /\ LET r == Construct(H0, call.name, call.message)
       IN  Commit(r) /\ last' = Done("Construct", NilRef, NilRef, r.ref, Error(r.heap, r.ref))
    /\ UNCHANGED <<call, serveVars>>

NextCall ==
    \/ CallNew
    \/ CallWrap
    \/ CallConstruct

SpecCall == InitCall /\ [][NextCall]_vars

\* the code each status-family constructor is documented to carry
DocumentedCode(name) ==
    CASE name = "BadRequest"          -> 400
      [] name = "Unauthorized"        -> 401
      [] name = "Forbidden"           -> 403
      [] name = "NotFound"            -> 404
      [] name = "MethodNotAllowed"    -> 405
      [] name = "Conflict"            -> 409
      [] name = "UnprocessableEntity" -> 422
      [] name = "InternalServerError" -> 500
      [] name = "NotImplemented"      -> 501
      [] name = "BadGateway"          -> 502
      [] name = "ServiceUnavailable"  -> 503
      [] name = "GatewayTimeout"      -> 504

DefaultingConstructors ==
    {"NotFound", "MethodNotAllowed", "InternalServerError", "NotImplemented",
     "BadGateway", "ServiceUnavailable", "GatewayTimeout"}

\* C9: a status-family constructor returns a value with its documented status code
\* whatever the message; with a non-empty message Message() is that message; with
\* the empty message the 404/405/500/501/502/503/504 constructors give the
\* standard reason phrase of their code.
C9_StatusFamilyConstructors ==
    last.op = "Construct" =>
        /\ StatusCode(H0, last.res) = DocumentedCode(call.name)
        /\ call.message # <<>> => Message(H0, last.res) = call.message
        /\ (call.message = <<>> /\ call.name \in DefaultingConstructors) =>
              /\ Message(H0, last.res) = StatusText(DocumentedCode(call.name))
              /\ Message(H0, last.res) # <<>>

\* GatewayTimeout("") has been called
C9_Witness ==
    /\ last.op = "Construct"
    /\ call.name = "GatewayTimeout"
    /\ call.message = <<>>
    /\ Message(H0, last.res) = <<"G","a","t","e","w","a","y"," ","T","i","m","e","o","u","t">>

\* the diagnostic string of the two errors a caller may wrap
CauseText(c) == IF c = 1 THEN TextBoom ELSE TextDB \o <<":"," ">> \o TextBoom

\* C10: New(code, x).Error() is x; Wrap(code, x, c).Error() with c non-nil is x,
\* then ": ", then c.Error(); in both cases StatusCode() is code and Message() is x.
C10_ErrorIsMessageThenCause ==
    /\ last.op = "New" =>
          /\ last.text = call.message
          /\ StatusCode(H0, last.res) = call.code
          /\ Message(H0, last.res) = call.message
    /\ (last.op = "Wrap" /\ call.cause # NilRef) =>
          /\ last.text = call.message \o <<":"," ">> \o CauseText(call.cause)
          /\ StatusCode(H0, last.res) = call.code
          /\ Message(H0, last.res) = call.message

\* Wrap(404, "x", q) has been called, q itself wrapping p
C10_Witness ==
    /\ last.op = "Wrap"
    /\ call.cause = 2
    /\ call.message = <<"x">>
    /\ last.text = <<"x",":"," ","d","b",":"," ","b","o","o","m">>

(***************************************************************************)
(* The handler adapters.                                                   *)
(***************************************************************************)
\* a NewHandler that leaves the formatter field unset
NewHandlerNoFormatter == [variant |-> "Handler", formatter |-> "nil"]

NewHandler == [variant |-> "Handler", formatter |-> "plainText"]
NewHandlerWithFormatter(formatter) == [variant |-> "Handler", formatter |-> formatter]
NewContextHandler == [variant |-> "ContextHandler", formatter |-> "plainText"]
NewContextHandlerWithFormatter(formatter) ==
    [variant |-> "ContextHandler", formatter |-> formatter]

\* the orders in which a range loop may visit the keys S
Orders(S) ==
    {o \in [1..Cardinality(S) -> S] : \A i, j \in 1..Cardinality(S) : o[i] = o[j] => i = j}

\* a header loop that sets nothing
SetNone(rw, kv, order) == rw

\* for key, value := range httpErr.Headers() { w.Header().Set(key, value) }
RECURSIVE SetAll(_, _, _)
SetAll(rw, kv, order) ==
    IF order = <<>> THEN rw
    ELSE SetAll(HeaderSet(rw, "adapter", Head(order), kv[Head(order)]), kv, Tail(order))

\* the keys handleError's loop ranges over when called with err
LoopKeys(H, err) ==
    LET a  == AsHTTPError(H, err)
        hs == Headers(a.heap, a.ref)
    IN  DOMAIN Entries(hs.heap, hs.ref)

\* a (*Handler).handleError whose fallback is the plain-text formatter
HandlerHandleErrorPlainFallback(rw, H, formatter, err, order) ==
    LET a  == AsHTTPError(H, err)
        hs == Headers(a.heap, a.ref)
        w1 == SetAll(rw, Entries(hs.heap, hs.ref), order)
        w2 == IF formatter # "nil"
              THEN Format(formatter, w1, hs.heap, a.ref)
              ELSE PlainTextFormat(w1, hs.heap, a.ref)
    IN  [heap |-> hs.heap, ref |-> a.ref, w |-> w2]

\* (*Handler).handleError; the result is the heap, the writer and httpErr
HandlerHandleErrorBody(rw, H, formatter, err, order) ==
    LET a  == AsHTTPError(H, err)
        hs == Headers(a.heap, a.ref)
        w1 == SetAll(rw, Entries(hs.heap, hs.ref), order)
        w2 == IF formatter # "nil"
              THEN Format(formatter, w1, hs.heap, a.ref)
              ELSE Write(WriteHeader(w1, "adapter", StatusCode(hs.heap, a.ref)),
                         "adapter", Message(hs.heap, a.ref))
    IN  [heap |-> hs.heap, ref |-> a.ref, w |-> w2]

\* a (*ContextHandler).handleError without the header loop
ContextHandlerHandleErrorNoHeaders(rw, H, formatter, err, order) ==
    LET a  == AsHTTPError(H, err)
        hs == Headers(a.heap, a.ref)
        w1 == SetNone(rw, Entries(hs.heap, hs.ref), order)
        w2 == IF formatter # "nil"
              THEN Format(formatter, w1, hs.heap, a.ref)
              ELSE Write(WriteHeader(w1, "adapter", StatusCode(hs.heap, a.ref)),
                         "adapter", Message(hs.heap, a.ref))
    IN  [heap |-> hs.heap, ref |-> a.ref, w |-> w2]

\* (*ContextHandler).handleError
ContextHandlerHandleErrorBody(rw, H, formatter, err, order) ==
    LET a  == AsHTTPError(H, err)
        hs == Headers(a.heap, a.ref)
        w1 == SetAll(rw, Entries(hs.heap, hs.ref), order)
        w2 == IF formatter # "nil"
              THEN Format(formatter, w1, hs.heap, a.ref)
              ELSE Write(WriteHeader(w1, "adapter", StatusCode(hs.heap, a.ref)),
                         "adapter", Message(hs.heap, a.ref))
    IN  [heap |-> hs.heap, ref |-> a.ref, w |-> w2]

\* a test that takes every return value for an error
ReturnedErrorAlways(err) == TRUE

\* if err != nil
ReturnedError(err) == err # NilRef

\* the user function: its calls on the writer, in order
RECURSIVE RunScript(_, _)
RunScript(rw, ops) ==
    IF ops = <<>> THEN rw
    ELSE LET o  == Head(ops)
             r1 == CASE o.op = "Set"         -> HeaderSet(rw, "user", o.key, o.val)
                     [] o.op = "WriteHeader" -> WriteHeader(rw, "user", o.code)
                     [] o.op = "Write"       -> Write(rw, "user", o.val)
         IN  RunScript(r1, Tail(ops))

(***************************************************************************)
(* SpecServe: one request served by a handler.  The handler, the user      *)
(* function's writes and the error it returns are drawn in the initial     *)
(* state.                                                                  *)
(***************************************************************************)
ResourceNotFound == <<"r","e","s","o","u","r","c","e"," ","n","o","t"," ","f","o","u","n","d">>
Success == <<"s","u","c","c","e","s","s">>
CacheControl == <<"C","a","c","h","e","-","C","o","n","t","r","o","l">>
NoCache == <<"n","o","-","c","a","c","h","e">>
LowerContentType == <<"c","o","n","t","e","n","t","-","t","y","p","e">>
ProblemJSON == <<"a","p","p","l","i","c","a","t","i","o","n","/","p","r","o","b","l","e","m">>
KeyXA == <<"X","-","A">>
KeyLowerXA == <<"x","-","a">>
StatusOK == 200

ServeCodes == {299, StatusNotFound, StatusInternalServerError}
ServeMsgs ==
    {<<>>, ResourceNotFound, <<"a", "\"", "<", "\\", "\n">>, <<"b", InvalidByte>>}
ServeKVs ==
    {EmptyKV,
     [k \in {CacheControl} |-> NoCache],
     [k \in {LowerContentType} |-> ProblemJSON],
     [k \in {KeyXA, KeyLowerXA} |-> IF k = KeyXA THEN <<"1">> ELSE <<"2">>],
     [k \in {KeyXA, CacheControl} |-> IF k = KeyXA THEN <<"1">> ELSE NoCache]}

\* WithHeaders(e, map[string]string{kv...}), or e itself for no headers
WithLiteral(e, kv) ==
    IF kv = EmptyKV THEN e
    ELSE LET m == AllocMap(e.heap, "client", kv)
         IN  WithHeaders(m.heap, e.ref, m.ref)

\* the values a user function may return, each with the heap that holds it
ServeInputs ==
    LET p == ErrorsNew(EmptyHeap, TextBoom)
    IN  {[heap |-> p.heap, ref |-> NilRef]}
        \cup {ErrorsNew(EmptyHeap, m) : m \in ServeMsgs}
        \cup {WithLiteral(New(p.heap, c, m), kv) :
                 c \in ServeCodes, m \in ServeMsgs, kv \in ServeKVs}
        \cup {WithLiteral(Wrap(p.heap, c, m, p.ref), kv) :
                 c \in ServeCodes, m \in ServeMsgs, kv \in ServeKVs}
        \cup {Custom(p.heap, c, m, kv) :
                 c \in ServeCodes, m \in ServeMsgs, kv \in ServeKVs}

UserOp(op, key, val, code) == [op |-> op, key |-> key, val |-> val, code |-> code]

\* what a user function does to the writer before it returns
UserWrites ==
    {<<>>,
     <<UserOp("Set", ContentType, ApplicationJSON, 0)>>,
     <<UserOp("WriteHeader", <<>>, <<>>, StatusOK), UserOp("Write", <<>>, Success, 0)>>,
     <<UserOp("Write", <<>>, Success, 0)>>}

ServeHandlers ==
    {NewHandler, NewContextHandler}
    \cup {NewHandlerWithFormatter(f) : f \in FormatterNames \cup {"nil"}}
    \cup {NewContextHandlerWithFormatter(f) : f \in FormatterNames \cup {"nil"}}

InitServe ==
    /\ \E in \in ServeInputs, ws \in UserWrites :
          /\ errs = in.heap.errs
          /\ maps = in.heap.maps
          /\ script = [writes |-> ws, ret |-> in.ref]
    /\ hnd \in ServeHandlers
    /\ pc = "start"
    /\ httpErr = NilRef
    /\ w = NewResponse
    /\ atReturn = NewResponse
    /\ twin = NoTwin
    /\ neg = NoNegotiator
    /\ last = NoLast
    /\ call = NoCall

\* (*Handler).ServeHTTP: the call of the user function and the test of its result
HandlerServeHTTP ==
    /\ pc = "start" /\ hnd.variant = "Handler"
    /\ w' = RunScript(w, script.writes)
    /\ atReturn' = w'
    /\ pc' = IF ReturnedError(script.ret) THEN "handleError" ELSE "done"
    /\ UNCHANGED <<valueVars, hnd, script, httpErr, twin, neg>>

HandlerHandleError ==
    /\ pc = "handleError" /\ hnd.variant = "Handler"
    /\ \E order \in Orders(LoopKeys(H0, script.ret)) :
          LET r == HandlerHandleErrorBody(w, H0, hnd.formatter, script.ret, order)
          IN  /\ Commit(r) /\ httpErr' = r.ref /\ w' = r.w
              /\ twin' = [twin EXCEPT !.order1 = order]
    /\ pc' = "done"
    /\ UNCHANGED <<last, call, hnd, script, atReturn, neg>>

\* (*ContextHandler).ServeHTTP: the user function is given r.Context()
ContextHandlerServeHTTP ==
    /\ pc = "start" /\ hnd.variant = "ContextHandler"
    /\ w' = RunScript(w, script.writes)
    /\ atReturn' = w'
    /\ pc' = IF ReturnedError(script.ret) THEN "handleError" ELSE "done"
    /\ UNCHANGED <<valueVars, hnd, script, httpErr, twin, neg>>

ContextHandlerHandleError ==
    /\ pc = "handleError" /\ hnd.variant = "ContextHandler"
    /\ \E order \in Orders(LoopKeys(H0, script.ret)) :
          LET r == ContextHandlerHandleErrorBody(w, H0, hnd.formatter, script.ret, order)
          IN  /\ Commit(r) /\ httpErr' = r.ref /\ w' = r.w
              /\ twin' = [twin EXCEPT !.order1 = order]
    /\ pc' = "done"
    /\ UNCHANGED <<last, call, hnd, script, atReturn, neg>>

NextServe ==
    \/ HandlerServeHTTP
    \/ HandlerHandleError
    \/ ContextHandlerServeHTTP
    \/ ContextHandlerHandleError

SpecServe == InitServe /\ [][NextServe]_vars

(***************************************************************************)
(* Properties of the adapters and formatters.                              *)
(***************************************************************************)
\* the calls the adapter (ServeHTTP, handleError, the formatter) made on the writer
AdapterCalls(op) == {i \in 1..Len(w.log) : w.log[i].by = "adapter" /\ w.log[i].op = op}

\* the user function made no status or body write
UserWroteNothing == \A i \in 1..Len(script.writes) : script.writes[i].op = "Set"

Failing == pc = "done" /\ script.ret # NilRef

\* C3: when the user function returns nil the adapter does nothing further:
\* handleError and the formatter never run, the adapter makes no call on the
\* writer, and the response is what it was when the user function returned.
C3_NilReturnIsPassThrough ==
    script.ret = NilRef =>
        /\ pc # "handleError"
        /\ httpErr = NilRef
        /\ \A i \in 1..Len(w.log) : w.log[i].by = "user"
        /\ pc = "done" =>
              /\ w = atReturn
              /\ w.log = [i \in 1..Len(script.writes) |->
                            Event("user", script.writes[i].op, script.writes[i].key,
                                  script.writes[i].val, script.writes[i].code)]

\* a user function wrote 200 and "success" and returned nil
C3_Witness ==
    /\ pc = "done" /\ script.ret = NilRef
    /\ hnd = NewContextHandlerWithFormatter("json")
    /\ w.status = 200 /\ w.body = Success /\ w.wroteHeader

\* C4: on a non-nil error the adapter makes exactly one WriteHeader call and
\* exactly one Write call on the writer, with the plain-text, JSON and HTML
\* formatters and with no formatter; on nil it makes no call at all.  (Writes
\* the user function made itself before returning are its own, not counted.)
C4_OneStatusOneBody ==
    /\ Failing =>
          /\ Cardinality(AdapterCalls("WriteHeader")) = 1
          /\ Cardinality(AdapterCalls("Write")) = 1
    /\ (pc = "done" /\ script.ret = NilRef) =>
          /\ AdapterCalls("WriteHeader") = {}
          /\ AdapterCalls("Write") = {}
          /\ AdapterCalls("Set") = {}

\* the default formatter has handled an error of a user function that wrote nothing
C4_Witness ==
    /\ Failing
    /\ hnd = NewHandler
    /\ script.writes = <<>>
    /\ errs[script.ret].kind = "plain"
    /\ w.wroteHeader /\ w.status = 500 /\ w.body = GenericMessage

\* C5: a handler built with NewHandler or NewContextHandler answers an HTTPError
\* returned by a user function that wrote no response itself with the error's
\* status code, Content-Type text/plain and the error's message as the body.
C5_DefaultIsPlainText ==
    (/\ Failing
     /\ hnd \in {NewHandler, NewContextHandler}
     /\ IsHTTPError(H0, script.ret)
     /\ UserWroteNothing) =>
        /\ w.status = StatusCode(H0, script.ret)
        /\ ContentType \in DOMAIN w.sent
        /\ w.sent[ContentType] = <<"t","e","x","t","/","p","l","a","i","n">>
        /\ w.body = Message(H0, script.ret)

\* NotFound("resource not found") through NewHandler
C5_Witness ==
    /\ Failing
    /\ hnd = NewHandler
    /\ script.writes = <<>>
    /\ errs[script.ret].kind = "basic"
    /\ w.status = 404
    /\ w.body = ResourceNotFound
    /\ w.sent = [k \in {ContentType} |-> TextPlain]

\* the error's header k went out on the response with value v
Carries(k, v) == CanonicalKey(k) \in DOMAIN w.sent /\ w.sent[CanonicalKey(k)] = v

BuiltInFormatter == hnd.formatter \in {"plainText", "json", "jsonPretty", "html"}

\* C6 as claimed: every entry of the returned error's headers is on the final
\* response, with the plain-text, JSON and HTML formatters.
C6_AllHeadersOnResponse ==
    (Failing /\ IsHTTPError(H0, script.ret) /\ BuiltInFormatter) =>
        \A k \in DOMAIN View(H0, script.ret) : Carries(k, View(H0, script.ret)[k])

\* C6 amended: when the user function has not committed the response itself,
\* every entry (k, v) of the returned error's headers whose canonical name is not
\* Content-Type, and is the canonical name of no other key of those headers, is
\* on the final response with value v; Content-Type is the formatter's own.
C6_HeadersOnResponse ==
    (Failing /\ IsHTTPError(H0, script.ret) /\ BuiltInFormatter /\ UserWroteNothing) =>
        LET hs == View(H0, script.ret)
        IN  /\ \A k \in DOMAIN hs :
                  (/\ CanonicalKey(k) # ContentType
                   /\ \A k2 \in DOMAIN hs : CanonicalKey(k2) = CanonicalKey(k) => k2 = k)
                  => Carries(k, hs[k])
            /\ Carries(ContentType,
                       CASE hnd.formatter = "plainText" -> TextPlain
                         [] hnd.formatter = "html"      -> TextHTML
                         [] OTHER                       -> ApplicationJSON)

\* an error with X-A and Cache-Control headers went through the HTML formatter
C6_Witness ==
    /\ Failing
    /\ hnd.formatter = "html"
    /\ script.writes = <<>>
    /\ IsHTTPError(H0, script.ret)
    /\ DOMAIN View(H0, script.ret) = {KeyXA, CacheControl}
    /\ Carries(KeyXA, <<"1">>) /\ Carries(CacheControl, NoCache)

(***************************************************************************)
(* Reading a JSON body back: the object a client deserializes, as a        *)
(* function from field name to [str, num] (num is -1 for a string value).  *)
(***************************************************************************)
RECURSIVE SkipSpace(_, _)
SkipSpace(text, i) ==
    IF i <= Len(text) /\ text[i] \in {" ", "\n"} THEN SkipSpace(text, i + 1) ELSE i

UnescapeChar(c) == IF c = "n" THEN "\n" ELSE c

UnicodeChar(hex) ==
    CASE hex = <<"0","0","3","c">> -> "<"
      [] hex = <<"f","f","f","d">> -> ReplacementChar

\* text[i] is the character after the opening quote; the result is the string
\* and the index after the closing quote
RECURSIVE ReadString(_, _, _)
ReadString(text, i, acc) ==
    IF text[i] = "\"" THEN [str |-> acc, next |-> i + 1]
    ELSE IF text[i] = "\\"
         THEN IF text[i + 1] = "u"
              THEN ReadString(text, i + 6,
                              Append(acc, UnicodeChar(SubSeq(text, i + 2, i + 5))))
              ELSE ReadString(text, i + 2, Append(acc, UnescapeChar(text[i + 1])))
         ELSE ReadString(text, i + 1, Append(acc, text[i]))

DigitValue(c) == (CHOOSE d \in 1..10 : Digits[d] = c) - 1

RECURSIVE ReadNumber(_, _, _)
ReadNumber(text, i, acc) ==
    IF i <= Len(text) /\ \E d \in 1..10 : Digits[d] = text[i]
    THEN ReadNumber(text, i + 1, acc * 10 + DigitValue(text[i]))
    ELSE [num |-> acc, next |-> i]

\* text[i] is the opening quote of a field name
RECURSIVE ReadMembers(_, _, _)
ReadMembers(text, i, obj) ==
    LET name  == ReadString(text, i + 1, <<>>)
        colon == SkipSpace(text, name.next)
        start == SkipSpace(text, colon + 1)
        isStr == text[start] = "\""
        sval  == ReadString(text, start + 1, <<>>)
        nval  == ReadNumber(text, start, 0)
        value == IF isStr THEN [str |-> sval.str, num |-> -1]
                          ELSE [str |-> <<>>, num |-> nval.num]
        after == SkipSpace(text, IF isStr THEN sval.next ELSE nval.next)
        obj2  == [k \in DOMAIN obj \cup {name.str} |->
                     IF k = name.str THEN value ELSE obj[k]]
    IN  IF text[after] = ","
        THEN ReadMembers(text, SkipSpace(text, after + 1), obj2)
        ELSE obj2

Unmarshal(text) ==
    LET open  == SkipSpace(text, 1)
        first == SkipSpace(text, open + 1)
    IN  IF text[first] = "}" THEN EmptyKV ELSE ReadMembers(text, first, EmptyKV)

FieldError == <<"e","r","r","o","r">>
FieldStatus == <<"s","t","a","t","u","s">>
FieldCode == <<"c","o","d","e">>

\* the argument of the adapter's Write call
WrittenBody == w.log[CHOOSE i \in AdapterCalls("Write") : TRUE].val

\* the adapter's call number n on the writer, counted from the user function's return
AdapterCall(n) == w.log[Len(atReturn.log) + n]

JSONFormatted == Failing /\ IsHTTPError(H0, script.ret) /\ hnd.formatter \in {"json", "jsonPretty"}

\* what the JSON formatter does apart from the body: it sets Content-Type
\* application/json after the error's own headers, writes the error's status
\* code, and these reach the client when the user function wrote nothing
JSONStatusAndType ==
    LET n == Cardinality(DOMAIN View(H0, script.ret))
    IN  /\ AdapterCall(n + 1) =
              Event("adapter", "Set", ContentType,
                    <<"a","p","p","l","i","c","a","t","i","o","n","/","j","s","o","n">>, 0)
        /\ AdapterCall(n + 2) =
              Event("adapter", "WriteHeader", <<>>, <<>>, StatusCode(H0, script.ret))
        /\ UserWroteNothing =>
              /\ w.status = StatusCode(H0, script.ret)
              /\ Carries(ContentType, ApplicationJSON)
              /\ w.body = WrittenBody

\* C8 as claimed: the JSON formatter writes the error's status, Content-Type
\* application/json and a body that is an object with the three fields error =
\* Message(), status = StatusCode(), code = reason phrase, all three present for
\* every status code, compact or pretty-printed.
C8_JSONThreeFields ==
    JSONFormatted =>
        LET obj == Unmarshal(WrittenBody)
        IN  /\ JSONStatusAndType
            /\ DOMAIN obj = {FieldError, FieldStatus, FieldCode}
            /\ obj[FieldError] = [str |-> Message(H0, script.ret), num |-> -1]
            /\ obj[FieldStatus] = [str |-> <<>>, num |-> StatusCode(H0, script.ret)]
            /\ obj[FieldCode] = [str |-> StatusText(StatusCode(H0, script.ret)), num |-> -1]

\* a message as a client reads it: bytes that are no valid UTF-8 replaced by U+FFFD
CoercedToUTF8(str) ==
    [i \in 1..Len(str) |-> IF str[i] = InvalidByte THEN ReplacementChar ELSE str[i]]

\* C8 amended: the JSON formatter writes the error's status, Content-Type
\* application/json and a body that is an object with error = Message() (bytes
\* that are no valid UTF-8 replaced by U+FFFD), status = StatusCode() and, when
\* the status code has a standard reason phrase, code = that phrase; for a
\* status code without one the object has no code field.  Compact or
\* pretty-printed alike.
C8_JSONBody ==
    JSONFormatted =>
        LET obj    == Unmarshal(WrittenBody)
            phrase == StatusText(StatusCode(H0, script.ret))
        IN  /\ JSONStatusAndType
            /\ obj[FieldError] = [str |-> CoercedToUTF8(Message(H0, script.ret)), num |-> -1]
            /\ obj[FieldStatus] = [str |-> <<>>, num |-> StatusCode(H0, script.ret)]
            /\ IF phrase = <<>>
               THEN DOMAIN obj = {FieldError, FieldStatus}
               ELSE /\ DOMAIN obj = {FieldError, FieldStatus, FieldCode}
                    /\ obj[FieldCode] = [str |-> phrase, num |-> -1]

\* NotFound("resource not found") through the compact JSON formatter, and an
\* error with status 299 through the pretty-printing one
C8_Witness ==
    /\ JSONFormatted
    /\ hnd.formatter = "json"
    /\ script.writes = <<>>
    /\ w.status = 404
    /\ Message(H0, script.ret) = ResourceNotFound
    /\ w.body =
         <<"{","\"","e","r","r","o","r","\"",":","\"","r","e","s","o","u","r","c","e"," ",
           "n","o","t"," ","f","o","u","n","d","\"",",","\"","s","t","a","t","u","s","\"",":",
           "4","0","4",",","\"","c","o","d","e","\"",":","\"","N","o","t"," ","F","o","u","n",
           "d","\"","}">>

C8_WitnessOmitted ==
    /\ JSONFormatted
    /\ hnd.formatter = "jsonPretty"
    /\ StatusCode(H0, script.ret) = 299
    /\ Message(H0, script.ret) = <<"a", "\"", "<", "\\", "\n">>
    /\ DOMAIN Unmarshal(WrittenBody) = {FieldError, FieldStatus}

(***************************************************************************)
(* SpecPair: two requests served one after the other over the same heap.   *)
(* The user function makes the same writes in both and returns a in the    *)
(* first and b in the second; the two handlers hold the same formatter.    *)
(* The first request is the one SpecServe serves (hnd, script, w); the      *)
(* second is twin, whose field made tells how a and b were built and whose *)
(* fields order1, order2 keep the order each header loop took.             *)
(***************************************************************************)
PairCode == StatusNotFound
StatusRequestTimeout == 408
Timeout == <<"t","i","m","e","o","u","t">>

\* a := errors.New(m1); b := errors.New(m2)
PlainPairs ==
    {LET a == ErrorsNew(EmptyHeap, m1)
         b == ErrorsNew(a.heap, m2)
     IN  [heap |-> b.heap, a |-> a.ref, b |-> b.ref, made |-> "errors.New"] :
        m1 \in ServeMsgs, m2 \in ServeMsgs}

\* p := errors.New("boom"); q := Wrap(503, "db", p);
\* a := Wrap(code, m, c1); b := Wrap(code, m, c2), both given the headers kv;
\* (c1, c2) is (p, q) or (nil, p)
WrapPairs ==
    {LET a == WithLiteral(Wrap(CallHeap, PairCode, m, cs[1]), kv)
         b == WithLiteral(Wrap(a.heap, PairCode, m, cs[2]), kv)
     IN  [heap |-> b.heap, a |-> a.ref, b |-> b.ref, made |-> "Wrap"] :
        m \in ServeMsgs, kv \in ServeKVs, cs \in {<<1, 2>>, <<NilRef, 1>>}}

\* the same value returned in both requests
SamePairs ==
    {[heap |-> in.heap, a |-> in.ref, b |-> in.ref, made |-> "once"] :
        in \in {[heap |-> CallHeap, ref |-> NilRef],
                ErrorsNew(EmptyHeap, TextBoom),
                New(CallHeap, StatusRequestTimeout, Timeout)}
               \cup {WithLiteral(Wrap(CallHeap, c, ResourceNotFound, 1), kv) :
                        c \in ServeCodes, kv \in ServeKVs}
               \cup {Custom(CallHeap, c, ResourceNotFound, kv) :
                        c \in ServeCodes, kv \in ServeKVs}}

PairInputs == PlainPairs \cup WrapPairs \cup SamePairs

\* the two handlers: the same constructor twice, or one of each adapter
PairHandlers ==
    {<<NewHandlerWithFormatter(f), NewHandlerWithFormatter(f)>> :
        f \in FormatterNames \cup {"nil"}}
    \cup {<<NewContextHandlerWithFormatter(f), NewContextHandlerWithFormatter(f)>> :
        f \in FormatterNames \cup {"nil"}}
    \cup {<<NewHandlerWithFormatter(f), NewContextHandlerWithFormatter(f)>> :
        f \in FormatterNames \cup {"nil"}}

InitPair ==
    /\ \E in \in PairInputs, ws \in UserWrites, hs \in PairHandlers :
          /\ errs = in.heap.errs
          /\ maps = in.heap.maps
          /\ script = [writes |-> ws, ret |-> in.a]
          /\ hnd = hs[1]
          /\ twin = [hnd |-> hs[2], pc |-> "start", ret |-> in.b, httpErr |-> NilRef,
                     w |-> NewResponse, atReturn |-> NewResponse, made |-> in.made,
                     order1 |-> <<>>, order2 |-> <<>>]
    /\ pc = "start"
    /\ httpErr = NilRef
    /\ w = NewResponse
    /\ atReturn = NewResponse
    /\ neg = NoNegotiator
    /\ last = NoLast
    /\ call = NoCall

\* ServeHTTP of the second request, once the first is answered
TwinServeHTTP ==
    /\ pc = "done" /\ twin.pc = "start"
    /\ LET w1 == RunScript(twin.w, script.writes)
       IN  twin' = [twin EXCEPT !.w = w1, !.atReturn = w1,
                                !.pc = IF ReturnedError(twin.ret) THEN "handleError"
                                       ELSE "done"]
    /\ UNCHANGED <<valueVars, hnd, pc, script, httpErr, w, atReturn, neg>>

\* handleError of the second request, of the adapter its handler is
TwinHandleError ==
    /\ pc = "done" /\ twin.pc = "handleError"
    /\ \E order \in Orders(LoopKeys(H0, twin.ret)) :
          LET r == IF twin.hnd.variant = "Handler"
                   THEN HandlerHandleErrorBody(twin.w, H0, twin.hnd.formatter,
                                               twin.ret, order)
                   ELSE ContextHandlerHandleErrorBody(twin.w, H0, twin.hnd.formatter,
                                                      twin.ret, order)
          IN  /\ Commit(r)
              /\ twin' = [twin EXCEPT !.httpErr = r.ref, !.w = r.w, !.pc = "done",
                                       !.order2 = order]
    /\ UNCHANGED <<last, call, hnd, pc, script, httpErr, w, atReturn, neg>>

NextPair ==
    \/ HandlerServeHTTP
    \/ HandlerHandleError
    \/ ContextHandlerServeHTTP
    \/ ContextHandlerHandleError
    \/ TwinServeHTTP
    \/ TwinHandleError

SpecPair == InitPair /\ [][NextPair]_vars

\* both requests have been answered through handleError
BothFailed == pc = "done" /\ twin.pc = "done" /\ script.ret # NilRef /\ twin.ret # NilRef

\* the two header loops visited their keys in the same order
SameLoopOrder == twin.order1 = twin.order2

\* C11: for two errors a and b that are no HTTPError, returned to handlers with
\* the same formatter by a user function making the same writes, the two
\* responses are the same in every part: status, headers, body and the calls
\* made on the writer.
C11_MaskingNoninterference ==
    (/\ BothFailed
     /\ hnd = twin.hnd
     /\ ~IsHTTPError(H0, script.ret)
     /\ ~IsHTTPError(H0, twin.ret)) =>
        /\ w = twin.w
        /\ w.log = twin.w.log

\* errors.New("resource not found") and errors.New("") through the JSON formatter
C11_Witness ==
    /\ BothFailed
    /\ hnd = twin.hnd /\ hnd.formatter = "json"
    /\ script.ret # twin.ret
    /\ errs[script.ret].kind = "plain" /\ errs[script.ret].message = ResourceNotFound
    /\ errs[twin.ret].kind = "plain" /\ errs[twin.ret].message = <<>>
    /\ script.writes = <<>>
    /\ twin.w.status = 500 /\ twin.w.body # <<>>
    /\ w.body = twin.w.body

\* a and b are alike in code, message and headers
AlikeButCause(a, b) ==
    /\ StatusCode(H0, a) = StatusCode(H0, b)
    /\ Message(H0, a) = Message(H0, b)
    /\ View(H0, a) = View(H0, b)

\* C12: the responses to a = Wrap(code, m, c1) and to b = Wrap(code, m, c2), each
\* given the same headers by WithHeaders or none, are the same in every part
\* under the plain-text, JSON and HTML formatters and under the nil fallback, for
\* header loops that visit the keys in the same order; a and b differ in no
\* accessor the adapter reads, only in what Error() returns.
C12_CauseNeverOnTheWire ==
    (/\ BothFailed
     /\ twin.made = "Wrap"
     /\ hnd = twin.hnd
     /\ SameLoopOrder) =>
        /\ w = twin.w
        /\ AlikeButCause(script.ret, twin.ret)
        /\ Error(H0, script.ret) # Error(H0, twin.ret)

\* Wrap(404, "resource not found", p) and Wrap(404, "resource not found", q),
\* both given Cache-Control by WithHeaders, have gone through the HTML formatter
C12_Witness ==
    /\ BothFailed
    /\ hnd = twin.hnd /\ hnd.formatter = "html"
    /\ script.writes = <<>>
    /\ twin.made = "Wrap"
    /\ Message(H0, script.ret) = ResourceNotFound
    /\ errs[script.ret].cause = 1 /\ errs[twin.ret].cause = 2
    /\ Error(H0, script.ret) # Error(H0, twin.ret)
    /\ View(H0, script.ret) = [k \in {CacheControl} |-> NoCache]
    /\ Carries(CacheControl, NoCache)
    /\ w.status = 404 /\ w.body = twin.w.body

\* C13: for the same formatter, user functions making the same writes and
\* returning the same value (an error or nil), and header loops visiting the keys
\* in the same order, Handler.ServeHTTP and ContextHandler.ServeHTTP make the
\* same sequence of calls on the writer (header sets, status writes, body
\* writes) and leave the same response; an error returned after cancellation is
\* one of those values.
C13_VariantsEquivalent ==
    (/\ twin.made = "once"
     /\ hnd.variant = "Handler" /\ twin.hnd.variant = "ContextHandler"
     /\ hnd.formatter = twin.hnd.formatter) =>
        /\ (pc = "done" /\ twin.pc \in {"handleError", "done"}) =>
              /\ atReturn = twin.atReturn
              /\ twin.pc = "handleError" => httpErr # NilRef
        /\ (pc = "done" /\ twin.pc = "done") =>
              /\ httpErr = NilRef <=> twin.httpErr = NilRef
              /\ SameLoopOrder => (w.log = twin.w.log /\ w = twin.w)

\* New(408, "timeout") has been returned to a Handler and to a ContextHandler,
\* both with the JSON formatter
C13_Witness ==
    /\ BothFailed
    /\ twin.made = "once"
    /\ hnd = NewHandlerWithFormatter("json")
    /\ twin.hnd = NewContextHandlerWithFormatter("json")
    /\ Message(H0, twin.ret) = Timeout
    /\ twin.w.status = StatusRequestTimeout
    /\ Len(twin.w.log) = 3
    /\ w.log = twin.w.log

(***************************************************************************)
(* The formatters subpackage: the XML formatter and the content-           *)
(* negotiating dispatcher, with its registry built by Register and         *)
(* SetDefault at startup and read by Format for each request.              *)
(***************************************************************************)
ApplicationXML == <<"a","p","p","l","i","c","a","t","i","o","n","/","x","m","l">>
TextCSV == <<"t","e","x","t","/","c","s","v">>
MimeJSON == ApplicationJSON
MimeHTML == <<"t","e","x","t","/","h","t","m","l">>
CommaSpace == <<",", " ">>

Tag(name) == <<"<">> \o name \o <<">">>
EndTag(name) == <<"<", "/">> \o name \o <<">">>
Element(name, content) == Tag(name) \o content \o EndTag(name)

\* the XML formatter: the fields of the JSON body inside an error root element
XMLFormat(rw, H, err) ==
    LET data == Element(<<"e","r","r","o","r">>,
                    Element(<<"e","r","r","o","r">>, Message(H, err))
                    \o Element(<<"s","t","a","t","u","s">>, Itoa(StatusCode(H, err)))
                    \o Element(<<"c","o","d","e">>, StatusText(StatusCode(H, err))))
    IN  Write(WriteHeader(HeaderSet(rw, "adapter", ContentType, ApplicationXML),
                          "adapter", StatusCode(H, err)),
              "adapter", data)

\* Format of a registered formatter
FormatRegistered(formatter, rw, H, err) ==
    IF formatter = "xml" THEN XMLFormat(rw, H, err) ELSE Format(formatter, rw, H, err)

\* sub occurs in s
Contains(s, sub) ==
    \E i \in 0..(Len(s) - Len(sub)) : SubSeq(s, i + 1, i + Len(sub)) = sub

\* the type mimeType matches a token of the Accept header
Matches(accept, mimeType) == accept.present /\ Contains(accept.value, mimeType)

\* a dispatcher that takes the first registered formatter whatever the request accepts
SelectFirstRegistered(registry, default, accept) ==
    IF registry = <<>> THEN default ELSE registry[1].formatter

\* the formatter the dispatcher selects: the first registered one whose type
\* matches the Accept header, the default when none does or the header is absent
RECURSIVE Select(_, _, _)
Select(registry, default, accept) ==
    IF registry = <<>> THEN default
    ELSE IF Matches(accept, Head(registry).mimeType) THEN Head(registry).formatter
         ELSE Select(Tail(registry), default, accept)

\* Register(mimeType, formatter) -> self
Register(n, mimeType, formatter) ==
    [n EXCEPT !.registry = Append(@, [mimeType |-> mimeType, formatter |-> formatter])]

\* SetDefault(formatter) -> self
SetDefault(n, formatter) == [n EXCEPT !.default = formatter]

(***************************************************************************)
(* SpecNegotiate: a dispatcher is set up by Register and SetDefault calls  *)
(* and then formats the error of one request.                              *)
(***************************************************************************)
\* the registrations a program makes: each type with the formatter of that type
Registrations ==
    {[mimeType |-> MimeJSON, formatter |-> "json"],
     [mimeType |-> MimeHTML, formatter |-> "html"],
     [mimeType |-> ApplicationXML, formatter |-> "xml"]}

DefaultFormatters == {"plainText", "json", "html", "xml"}

\* the Accept header of a request: absent, or one of these values
AcceptValues ==
    {[present |-> FALSE, value |-> <<>>]}
    \cup {[present |-> TRUE, value |-> v] :
             v \in {ApplicationXML, MimeJSON, TextCSV, <<"*","/","*">>,
                    MimeHTML \o CommaSpace \o ApplicationXML}}

\* the error values the dispatcher is given
NegotiateInputs ==
    {NotFound(EmptyHeap, ResourceNotFound),
     WithLiteral(New(EmptyHeap, StatusInternalServerError, <<>>),
                 [k \in {CacheControl} |-> NoCache])}

Registered(n) == {n.registry[i] : i \in 1..Len(n.registry)}

InitNegotiate ==
    /\ \E in \in NegotiateInputs :
          /\ errs = in.heap.errs
          /\ maps = in.heap.maps
          /\ script = [writes |-> <<>>, ret |-> in.ref]
    /\ neg = [NoNegotiator EXCEPT !.phase = "setup"]
    /\ hnd = NoHandler
    /\ pc = "idle"
    /\ httpErr = NilRef
    /\ w = NewResponse
    /\ atReturn = NewResponse
    /\ twin = NoTwin
    /\ last = NoLast
    /\ call = NoCall

\* a Register call at startup, for a type not registered yet
CallRegister ==
    /\ neg.phase = "setup"
    /\ \E r \in Registrations \ Registered(neg) :
          neg' = Register(neg, r.mimeType, r.formatter)
    /\ UNCHANGED <<valueVars, hnd, pc, script, httpErr, w, atReturn, twin>>

\* the SetDefault call at startup
CallSetDefault ==
    /\ neg.phase = "setup"
    /\ neg.default = "nil"
    /\ \E f \in DefaultFormatters : neg' = SetDefault(neg, f)
    /\ UNCHANGED <<valueVars, hnd, pc, script, httpErr, w, atReturn, twin>>

\* the dispatcher's Format for a request, once a default is configured
NegotiatorFormat ==
    /\ neg.phase = "setup"
    /\ neg.default # "nil"
    /\ \E a \in AcceptValues :
          LET f == Select(neg.registry, neg.default, a)
          IN  /\ neg' = [neg EXCEPT !.phase = "served", !.accept = a, !.chosen = f]
              /\ w' = FormatRegistered(f, w, H0, script.ret)
    /\ UNCHANGED <<valueVars, hnd, pc, script, httpErr, atReturn, twin>>

NextNegotiate ==
    \/ CallRegister
    \/ CallSetDefault
    \/ NegotiatorFormat

SpecNegotiate == InitNegotiate /\ [][NextNegotiate]_vars

\* the dispatcher is registered for JSON, HTML and XML
FullyRegistered == Registered(neg) = Registrations

\* the response is the one formatter f writes for the error
RenderedBy(f) == w = FormatRegistered(f, NewResponse, H0, script.ret)

\* C14: a dispatcher registered for JSON, HTML and XML plus a default renders a
\* request with Accept: application/xml by the XML formatter; a request whose
\* Accept value matches none of the registered types, or that has no Accept
\* header, is rendered by the configured default formatter.
C14_NegotiatorSelectsByAccept ==
    neg.phase = "served" =>
        /\ (FullyRegistered /\ neg.accept = [present |-> TRUE, value |-> ApplicationXML]) =>
              /\ neg.chosen = "xml"
              /\ RenderedBy("xml")
              /\ ContentType \in DOMAIN w.sent
              /\ w.sent[ContentType] = ApplicationXML
        /\ (\/ ~neg.accept.present
            \/ \A r \in Registered(neg) : ~Contains(neg.accept.value, r.mimeType)) =>
              /\ neg.chosen = neg.default
              /\ RenderedBy(neg.default)

\* registered html, json, xml in that order with default plain text; the request
\* had Accept: application/xml
C14_Witness ==
    /\ neg.phase = "served"
    /\ Len(neg.registry) = 3 /\ neg.registry[1].formatter = "html"
    /\ neg.default = "plainText"
    /\ neg.accept = [present |-> TRUE, value |-> ApplicationXML]
    /\ neg.chosen = "xml"
    /\ w.status = 404
    /\ w.body = Tag(<<"e","r","r","o","r">>) \o Tag(<<"e","r","r","o","r">>)
                \o ResourceNotFound \o EndTag(<<"e","r","r","o","r">>)
                \o <<"<","s","t","a","t","u","s",">","4","0","4","<","/","s","t","a","t","u","s",">">>
                \o <<"<","c","o","d","e",">","N","o","t"," ","F","o","u","n","d","<","/","c","o","d","e",">">>
                \o EndTag(<<"e","r","r","o","r">>)

\* fully registered with default JSON; the request had Accept: text/csv
C14_WitnessDefault ==
    /\ neg.phase = "served"
    /\ FullyRegistered
    /\ neg.default = "json"
    /\ neg.accept = [present |-> TRUE, value |-> TextCSV]
    /\ neg.chosen = "json"
    /\ w.sent = (ContentType :> ApplicationJSON)

(***************************************************************************)
(* The order of the calls handleError and the formatter make on the writer  *)
(***************************************************************************)
\* the calls the adapter made on the writer, in order
AdapterLog == SelectSeq(w.log, LAMBDA e : e.by = "adapter")

\* the Content-Type the formatter of the handler sets
FormatterType ==
    CASE hnd.formatter = "plainText" -> TextPlain
      [] hnd.formatter \in {"json", "jsonPretty"} -> ApplicationJSON
      [] hnd.formatter = "html" -> TextHTML

\* the headers of the normalized error handleError worked on
NormalizedHeaders == View(H0, httpErr)

\* C15: in every run of the adapter on a non-nil error, every header set made by
\* the adapter (the error's headers) and by the plain-text, JSON or HTML
\* formatter (Content-Type) comes before the first status or body write the
\* adapter or formatter makes, and none comes after it; the sets of the error's
\* headers, one for each entry, come first, before the formatter's own.
C15_HeadersBeforeCommit ==
    /\ Failing =>
          \A i, j \in 1..Len(AdapterLog) :
              (/\ AdapterLog[i].op = "Set"
               /\ AdapterLog[j].op \in {"WriteHeader", "Write"}) => i < j
    /\ (Failing /\ BuiltInFormatter) =>
        LET n  == Cardinality(DOMAIN NormalizedHeaders)
            lg == AdapterLog
        IN  /\ Len(lg) = n + 3
            /\ \A i \in 1..n :
                  /\ lg[i].op = "Set"
                  /\ lg[i].key \in DOMAIN NormalizedHeaders
                  /\ lg[i].val = NormalizedHeaders[lg[i].key]
            /\ {lg[i].key : i \in 1..n} = DOMAIN NormalizedHeaders
            /\ lg[n + 1].op = "Set" /\ lg[n + 1].key = ContentType
            /\ lg[n + 1].val = FormatterType
            /\ lg[n + 2].op = "WriteHeader"
            /\ lg[n + 3].op = "Write"

\* an error with the headers X-A and Cache-Control has gone through the HTML
\* formatter: two sets, the formatter's Content-Type, the status, the body
C15_Witness ==
    /\ Failing
    /\ hnd.formatter = "html"
    /\ DOMAIN NormalizedHeaders = {KeyXA, CacheControl}
    /\ Len(AdapterLog) = 5
    /\ AdapterLog[2].op = "Set" /\ AdapterLog[2].key = CacheControl
    /\ AdapterLog[3].key = ContentType
    /\ AdapterLog[4].op = "WriteHeader" /\ AdapterLog[4].code = 500
    /\ w.wroteHeader /\ Carries(CacheControl, NoCache)

\* C16: a handler built by NewHandlerWithFormatter or
\* NewContextHandlerWithFormatter with a nil formatter, on a non-nil error, sets
\* each header of the normalized error, then writes the error's status code,
\* then its message bytes as they are; it sets no header besides the error's,
\* so no Content-Type of its own.
C16_NilFormatterFallback ==
    (Failing /\ hnd.formatter = "nil") =>
        LET n  == Cardinality(DOMAIN NormalizedHeaders)
            lg == AdapterLog
        IN  /\ Len(lg) = n + 2
            /\ \A i \in 1..n :
                  /\ lg[i].op = "Set"
                  /\ lg[i].key \in DOMAIN NormalizedHeaders
                  /\ lg[i].val = NormalizedHeaders[lg[i].key]
            /\ {lg[i].key : i \in 1..n} = DOMAIN NormalizedHeaders
            /\ lg[n + 1].op = "WriteHeader"
            /\ lg[n + 1].code = StatusCode(H0, httpErr)
            /\ lg[n + 2].op = "Write"
            /\ lg[n + 2].val = Message(H0, httpErr)
            /\ IsHTTPError(H0, script.ret) => httpErr = script.ret
            /\ ~IsHTTPError(H0, script.ret) =>
                  /\ StatusCode(H0, httpErr) = StatusInternalServerError
                  /\ Message(H0, httpErr) = GenericMessage
            /\ script.writes = <<>> =>
                  /\ w.status = StatusCode(H0, httpErr)
                  /\ w.body = Message(H0, httpErr)

\* a 404 whose message holds a byte that is no UTF-8, with the header
\* Cache-Control, has gone through a ContextHandler without formatter
C16_Witness ==
    /\ Failing
    /\ hnd = NewContextHandlerWithFormatter("nil")
    /\ script.writes = <<>>
    /\ NormalizedHeaders = [k \in {CacheControl} |-> NoCache]
    /\ w.status = 404
    /\ w.body = <<"b", InvalidByte>>
    /\ Carries(CacheControl, NoCache)
    /\ Len(AdapterLog) = 3

====
